---- MODULE Spec2Model ----
(***************************************************************************)
(* A model of src/js/menu/menu-item.js: the MenuItem component of the      *)
(* player's menus.  One MenuItem instance is modelled: its fields, its     *)
(* rendered element, and the handlers the owning menu and the browser      *)
(* invoke on it (selected, handleClick, handleKeyDown and the two          *)
(* listeners of the chapter edit button).                                  *)
(*                                                                         *)
(* Text (labels, text contents, the control text) is a sequence of         *)
(* one-character strings, so that split('||'), trim() and includes() are   *)
(* computed as the code computes them.  Class names and attribute values   *)
(* are strings.  A JavaScript option value is one of "true", "false" and   *)
(* "undefined".                                                            *)
(***************************************************************************)
EXTENDS Integers, Sequences, FiniteSets, TLC

VARIABLES options_, selectable, multiSelectable, isSelected_, el_,
          controlText_, nonIconControl, event, trace

vars == <<options_, selectable, multiSelectable, isSelected_, el_,
          controlText_, nonIconControl, event, trace>>

(* ------------------------------ bounds --------------------------------- *)

\* Labels have at most this many characters.
MaxLabelLen == 3

\* The characters labels are made of: a letter, a blank and the delimiter's bar.
Alphabet == {"a", " ", "|"}

Labels == UNION {[1..n -> Alphabet] : n \in 0..MaxLabelLen}

\* Labels of the rendering checks have at most this many characters: enough
\* for a name, two delimiters and a text between or after them.
MaxRenderLen == 5

RenderLabels == UNION {[1..n -> Alphabet] : n \in 0..MaxRenderLen}

\* The values a boolean option can be given as (or left out: "undefined").
JsVals == {"true", "false", "undefined"}

Options == [label : Labels, selectable : JsVals, multiSelectable : JsVals,
            selected : JsVals]

\* The options of the rendering checks: the longer labels, with the flags
\* given as booleans and the item not multi-selectable.
RenderOptions == [label : RenderLabels, selectable : {"true", "false"},
                  multiSelectable : {"false"}, selected : {"true", "false"}]

(* --------------------------- JavaScript values ------------------------- *)

\* if (v): the truthiness of an option value.
Truthy(v) == v = "true"

\* v || false
OrFalse(v) == IF Truthy(v) THEN TRUE ELSE FALSE

(* ------------------------------- text ---------------------------------- *)

\* The delimiter of the two parts of a label, '||'.
Delimiter == <<"|", "|">>

\* The marker selected() looks for in the rendered markup, '-chapter-'.
ChapterMarker == <<"-", "c", "h", "a", "p", "t", "e", "r", "-">>

\* The control text of the selected state, ', selected'.
SelectedText == <<",", " ", "s", "e", "l", "e", "c", "t", "e", "d">>

\* The control text of the deselected state, ''.
EmptyText == <<>>

\* s.includes(sub)
Includes(s, sub) ==
    \E i \in 0..(Len(s) - Len(sub)) : SubSeq(s, i + 1, i + Len(sub)) = sub

\* s.indexOf(sub), 1-based; 0 when sub does not occur in s.
IndexOf(s, sub) ==
    IF Includes(s, sub)
    THEN CHOOSE i \in 1..(Len(s) - Len(sub) + 1) :
            /\ SubSeq(s, i, i + Len(sub) - 1) = sub
            /\ \A j \in 1..(i - 1) : SubSeq(s, j, j + Len(sub) - 1) # sub
    ELSE 0

\* s.split(sep): the pieces between the successive occurrences of sep, read
\* from the left.
RECURSIVE Split(_, _)
Split(s, sep) ==
    LET i == IndexOf(s, sep) IN
    IF i = 0
    THEN <<s>>
    ELSE <<SubSeq(s, 1, i - 1)>> \o Split(SubSeq(s, i + Len(sep), Len(s)), sep)

IsWhitespace(c) == c = " "

\* s.trim(): s without its leading and trailing whitespace.
RECURSIVE Trim(_)
Trim(s) ==
    IF s = <<>> THEN s
    ELSE IF IsWhitespace(Head(s)) THEN Trim(Tail(s))
    ELSE IF IsWhitespace(s[Len(s)]) THEN Trim(SubSeq(s, 1, Len(s) - 1))
    ELSE s

\* The player's language dictionary: one entry, for the text 'a'.
Languages == [t \in {<<"a">>} |-> <<"A">>]

\* this.localize(text): the dictionary's entry for text, else text itself.
Localize(text) == IF text \in DOMAIN Languages THEN Languages[text] ELSE text

\* A value that may be undefined: a missing array element, an unset field.
Undefined == [defined |-> FALSE, text |-> <<>>]

Defined(t) == [defined |-> TRUE, text |-> t]

\* if (t), for a string that may be undefined: defined and not ''.
TruthyText(t) == t.defined /\ t.text # <<>>

(* ----------------------------- the element ----------------------------- *)

\* An attribute the element does not have.
Absent == "(absent)"

\* el.setAttribute(name, value)
SetAttribute(el, name, value) == [el EXCEPT !.attrs[name] = value]

\* A child element: a span with one class, a text content and the event
\* types it has listeners for.
Span(className, textContent, listeners) ==
    [className |-> className, textContent |-> textContent,
     listeners |-> listeners]

\* ClickableComponent.buildCSSClass()
BuildCSSClass == {"vjs-control", "vjs-button"}

\* ClickableComponent.createEl(tag, props, attributes): the element with the
\* icon placeholder in it and the control text span appended, role 'button'.
\* The control text is still unset, so the span is empty.
SuperCreateEl(tag, props) ==
    [tag       |-> tag,
     className |-> props.className,
     tabIndex  |-> props.tabIndex,
     style     |-> props.style,
     attrs     |-> ("role" :> "button") @@ ("aria-checked" :> Absent)
                   @@ ("title" :> Absent),
     children  |-> << Span("vjs-icon-placeholder", <<>>, {}),
                      Span("vjs-control-text", <<>>, {}) >>]

\* el.querySelector('.' + className): the place of the first child of that
\* class, 0 when there is none.
QuerySelector(el, className) ==
    IF \E i \in DOMAIN el.children : el.children[i].className = className
    THEN CHOOSE i \in DOMAIN el.children :
            /\ el.children[i].className = className
            /\ \A j \in 1..(i - 1) : el.children[j].className # className
    ELSE 0

\* el.prepend(child)
Prepend(el, child) == [el EXCEPT !.children = <<child>> \o @]

\* el.appendChild(child)
AppendChild(el, child) == [el EXCEPT !.children = Append(@, child)]

\* el.replaceChild(newChild, the child at place i)
ReplaceChild(el, newChild, i) == [el EXCEPT !.children[i] = newChild]

\* The class names of this file that contain the marker '-chapter-'.
ChapterClasses == {"vjs-menu-item-chapter-edit-button",
                   "vjs-menu-item-chapter-starttime"}

\* el.outerHTML.includes('-chapter-'): the markup is made of the element's
\* classes and attributes and of its children's classes and texts; the
\* marker is in it when a class name contains it or a text does (no tag,
\* attribute name or attribute value of this component contains it).
OuterHTMLIncludesChapter(el) ==
    \/ el.className \cap ChapterClasses # {}
    \/ \E i \in DOMAIN el.children :
          \/ el.children[i].className \in ChapterClasses
          \/ Includes(el.children[i].textContent, ChapterMarker)

(* ------------------------------ createEl ------------------------------- *)

\* const chapterText = this.options_.label.split('||')[0]
ChapterText(label) == Split(label, Delimiter)[1]

\* chapterStartTime as all that follows the first '||'.
ChapterStartTimeRemainder(label) ==
    LET i == IndexOf(label, Delimiter) IN
    IF i > 0
    THEN Defined(SubSeq(label, i + Len(Delimiter), Len(label)))
    ELSE Undefined

\* const chapterStartTime = this.options_.label.split('||')[1]
ChapterStartTime(label) ==
    LET parts == Split(label, Delimiter) IN
    IF Len(parts) >= 2 THEN Defined(parts[2]) ELSE Undefined

\* isChapterNameEmpty without the trim(): only '' is an empty name.
IsChapterNameEmptyNoTrim(label) == ChapterText(label) = <<>>

\* const isChapterNameEmpty = (chapterText === null || chapterText.trim() === '')
IsChapterNameEmpty(label) == Trim(ChapterText(label)) = <<>>

\* The event the listeners of the edit button dispatch: chapterEvent with
\* chapterEvent.data = {chapter: chapterText}.
ChapterEvent(label) ==
    [type |-> "chapterEditEvent", data |-> [chapter |-> ChapterText(label)]]

\* createEl() that leaves the edit button out of the row.
CreateElNoEditButton(options) ==
    LET el == SuperCreateEl("li", [className |-> {"vjs-menu-item"},
                                    tabIndex |-> -1, style |-> ""])
        chapterText == ChapterText(options.label)
        chapterStartTime == ChapterStartTime(options.label)
        emptyEl == SuperCreateEl("li", [className |-> BuildCSSClass,
                                         tabIndex |-> 0,
                                         style |-> "display: none;"])
        el2 == ReplaceChild(el,
                            Span("vjs-menu-item-text", Localize(chapterText), {}),
                            QuerySelector(el, "vjs-icon-placeholder"))
        el3 == IF TruthyText(chapterStartTime)
               THEN AppendChild(el2, Span("vjs-menu-item-chapter-starttime",
                                          Localize(chapterStartTime.text), {}))
               ELSE el2
    IN  IF IsChapterNameEmpty(options.label) THEN emptyEl ELSE el3

\* MenuItem.createEl(): the row of the item; for a blank name the hidden row.
CreateEl(options) ==
    LET el == SuperCreateEl("li", [className |-> {"vjs-menu-item"},
                                    tabIndex |-> -1, style |-> ""])
        chapterEditButtonEl ==
            Span("vjs-menu-item-chapter-edit-button", <<>>,
                 {"click", "touchstart"})
        chapterText == ChapterText(options.label)
        chapterStartTime == ChapterStartTime(options.label)
        emptyEl == SuperCreateEl("li", [className |-> BuildCSSClass,
                                         tabIndex |-> 0,
                                         style |-> "display: none;"])
        el1 == Prepend(el, chapterEditButtonEl)
        el2 == ReplaceChild(el1,
                            Span("vjs-menu-item-text", Localize(chapterText), {}),
                            QuerySelector(el1, "vjs-icon-placeholder"))
        el3 == IF TruthyText(chapterStartTime)
               THEN AppendChild(el2, Span("vjs-menu-item-chapter-starttime",
                                          Localize(chapterStartTime.text), {}))
               ELSE el2
    IN  IF IsChapterNameEmpty(options.label) THEN emptyEl ELSE el3

(* -------------------- the base component's methods ---------------------- *)

\* Component.addClass(c), on the component's element.
AddClass(el, c) == [el EXCEPT !.className = @ \cup {c}]

\* Component.removeClass(c), on the component's element.
RemoveClass(el, c) == [el EXCEPT !.className = @ \ {c}]

\* ClickableComponent.controlText(text): keeps the text, writes its
\* localization into the control text span and, for an icon-only control,
\* into the title attribute.
ControlText(self, text) ==
    LET localizedText == Localize(text)
        i  == QuerySelector(self.el_, "vjs-control-text")
        el == [self.el_ EXCEPT !.children[i].textContent = localizedText]
    IN  [self EXCEPT !.controlText_ = Defined(text),
                     !.el_ = IF self.nonIconControl
                             THEN el
                             ELSE SetAttribute(el, "title", localizedText)]

(* ------------------------------ selected ------------------------------- *)

\* EnterSelected without the control text: the screen reader's hint is
\* forgotten.
EnterSelectedNoControlText(self) ==
    LET s1 == [self EXCEPT !.el_ = AddClass(@, "vjs-selected")]
        s2 == [s1 EXCEPT !.el_ = SetAttribute(@, "aria-checked", "true")]
    IN  [s2 EXCEPT !.isSelected_ = TRUE]

\* EnterSelected that also marks the element as a checkbox.
EnterSelectedSetsRole(self) ==
    LET s1 == [self EXCEPT !.el_ = AddClass(@, "vjs-selected")]
        s2 == [s1 EXCEPT !.el_ = SetAttribute(@, "aria-checked", "true")]
        s3 == [s2 EXCEPT !.el_ = SetAttribute(@, "role", "menuitemcheckbox")]
        s4 == ControlText(s3, SelectedText)
    IN  [s4 EXCEPT !.isSelected_ = TRUE]

\* EnterSelected that appends ', selected' to the control text it finds.
EnterSelectedAppendsText(self) ==
    LET s1 == [self EXCEPT !.el_ = AddClass(@, "vjs-selected")]
        s2 == [s1 EXCEPT !.el_ = SetAttribute(@, "aria-checked", "true")]
        s3 == ControlText(s2, self.controlText_.text \o SelectedText)
    IN  [s3 EXCEPT !.isSelected_ = TRUE]

\* The branch of selected() that enters the selected state.
EnterSelected(self) ==
    LET s1 == [self EXCEPT !.el_ = AddClass(@, "vjs-selected")]
        s2 == [s1 EXCEPT !.el_ = SetAttribute(@, "aria-checked", "true")]
        s3 == ControlText(s2, SelectedText)
    IN  [s3 EXCEPT !.isSelected_ = TRUE]

\* EnterDeselected that leaves the selection class on the element.
EnterDeselectedKeepsClass(self) ==
    LET s2 == [self EXCEPT !.el_ = SetAttribute(@, "aria-checked", "false")]
        s3 == ControlText(s2, EmptyText)
    IN  [s3 EXCEPT !.isSelected_ = FALSE]

\* EnterDeselected that leaves the selected flag as it is.
EnterDeselectedKeepsFlag(self) ==
    LET s1 == [self EXCEPT !.el_ = RemoveClass(@, "vjs-selected")]
        s2 == [s1 EXCEPT !.el_ = SetAttribute(@, "aria-checked", "false")]
    IN  ControlText(s2, EmptyText)

\* EnterDeselected that puts the cleared text in a new control text span,
\* appended to the element at each call, instead of the one it has.
EnterDeselectedAppendsSpan(self) ==
    LET s1 == [self EXCEPT !.el_ = RemoveClass(@, "vjs-selected")]
        s2 == [s1 EXCEPT !.el_ = SetAttribute(@, "aria-checked", "false")]
        s3 == [s2 EXCEPT !.controlText_ = Defined(EmptyText),
                         !.el_ = AppendChild(@, Span("vjs-control-text",
                                                     Localize(EmptyText), {}))]
    IN  [s3 EXCEPT !.isSelected_ = FALSE]

\* The branch of selected() that enters the deselected state.
EnterDeselected(self) ==
    LET s1 == [self EXCEPT !.el_ = RemoveClass(@, "vjs-selected")]
        s2 == [s1 EXCEPT !.el_ = SetAttribute(@, "aria-checked", "false")]
        s3 == ControlText(s2, EmptyText)
    IN  [s3 EXCEPT !.isSelected_ = FALSE]

\* selected() without the look at the markup: a chapter row is selected
\* like any other.
SelectedNoChapterGuard(self, selected) ==
    IF Truthy(self.selectable)
    THEN IF selected
         THEN EnterSelected(self)
         ELSE EnterDeselected(self)
    ELSE self

\* selected() without the test of selectable.
SelectedNoSelectableGuard(self, selected) ==
    IF selected /\ ~OuterHTMLIncludesChapter(self.el_)
    THEN EnterSelected(self)
    ELSE EnterDeselected(self)

\* MenuItem.selected(selected)
Selected(self, selected) ==
    IF Truthy(self.selectable)
    THEN IF selected /\ ~OuterHTMLIncludesChapter(self.el_)
         THEN EnterSelected(self)
         ELSE EnterDeselected(self)
    ELSE self

(* ----------------------------- constructor ----------------------------- *)

\* Role that tests multiSelectable before selectable.
RoleMultiFirst(self) ==
    IF Truthy(self.multiSelectable)
    THEN "menuitemcheckbox"
    ELSE IF Truthy(self.selectable)
         THEN "menuitemradio"
         ELSE "menuitem"

\* The role the constructor gives the element.
Role(self) ==
    IF Truthy(self.selectable)
    THEN IF Truthy(self.multiSelectable)
         THEN "menuitemcheckbox"
         ELSE "menuitemradio"
    ELSE "menuitem"

\* The constructor without its call of selected(): the flag is set, the
\* element is not brought in line with it.
ConstructorNoSelected(options) ==
    LET s0 == [options_        |-> options,
               nonIconControl  |-> TRUE,
               el_             |-> CreateEl(options),
               controlText_    |-> Undefined,
               selectable      |-> options.selectable,
               isSelected_     |-> OrFalse(options.selected),
               multiSelectable |-> options.multiSelectable]
    IN  [s0 EXCEPT !.el_ = SetAttribute(@, "role", Role(s0))]

\* new MenuItem(player, options): the base constructor keeps the options and
\* renders the element with createEl(); then the fields are set, the initial
\* selection is applied and the role is set.
Constructor(options) ==
    LET s0 == [options_        |-> options,
               nonIconControl  |-> TRUE,
               el_             |-> CreateEl(options),
               controlText_    |-> Undefined,
               selectable      |-> options.selectable,
               isSelected_     |-> OrFalse(options.selected),
               multiSelectable |-> options.multiSelectable]
        s1 == Selected(s0, s0.isSelected_)
    IN  [s1 EXCEPT !.el_ = SetAttribute(@, "role", Role(s1))]

(* ------------------------------ handlers ------------------------------- *)

\* What a handler did: the component and the event when it returns, the
\* events the base keydown handler was called with and the requests made to
\* selected(), each in order.
Run(self, ev, superHandleKeyDown, selectedRequests) ==
    [self |-> self, event |-> ev, superHandleKeyDown |-> superHandleKeyDown,
     selectedRequests |-> selectedRequests]

\* handleClick that toggles the selection.
HandleClickToggle(self, ev) ==
    Run(Selected(self, ~self.isSelected_), ev, <<>>, <<~self.isSelected_>>)

\* MenuItem.handleClick(event)
HandleClick(self, ev) == Run(Selected(self, TRUE), ev, <<>>, <<TRUE>>)

\* The keys the menu uses itself (menu-keys.js).
MenuKeys == {"Tab", "Esc", "Up", "Down", "Right", "Left"}

\* The keys of the keydown events delivered to the item.
Keys == MenuKeys \cup {"Enter", "Space", "a"}

\* keycode.isEventKey(event, key)
IsEventKey(ev, key) == ev.key = key

\* ClickableComponent.handleKeyDown(event): Space and Enter act as a click on
\* the item; baseStops tells whether the base handling stops the event's
\* propagation.
SuperHandleKeyDown(self, ev, baseStops) ==
    LET ev1 == [ev EXCEPT !.propagationStopped = @ \/ baseStops] IN
    IF IsEventKey(ev, "Space") \/ IsEventKey(ev, "Enter")
    THEN LET r == HandleClick(self, ev1)
         IN  Run(r.self, r.event, <<ev>>, r.selectedRequests)
    ELSE Run(self, ev1, <<ev>>, <<>>)

\* handleKeyDown that passes every key up.
HandleKeyDownAlwaysUp(self, ev, baseStops) ==
    SuperHandleKeyDown(self, ev, baseStops)

\* handleKeyDown that stops the propagation of the menu's keys.
HandleKeyDownStops(self, ev, baseStops) ==
    IF ~(\E key \in MenuKeys : IsEventKey(ev, key))
    THEN SuperHandleKeyDown(self, ev, baseStops)
    ELSE Run(self, [ev EXCEPT !.propagationStopped = TRUE], <<>>, <<>>)

\* handleKeyDown that takes the menu's keys as a click on the item.
HandleKeyDownSelects(self, ev, baseStops) ==
    IF ~(\E key \in MenuKeys : IsEventKey(ev, key))
    THEN SuperHandleKeyDown(self, ev, baseStops)
    ELSE HandleClick(self, ev)

\* MenuItem.handleKeyDown(event)
HandleKeyDown(self, ev, baseStops) ==
    IF ~(\E key \in MenuKeys : IsEventKey(ev, key))
    THEN SuperHandleKeyDown(self, ev, baseStops)
    ELSE Run(self, ev, <<>>, <<>>)

\* The edit button with a listener that only answers clicks.
EditListenerClickOnly(self, type) ==
    IF type = "click" THEN << ChapterEvent(self.options_.label) >> ELSE <<>>

\* The listener of the edit button for 'click' and for 'touchstart':
\* window.dispatchEvent(chapterEvent).  The events dispatched on window.
EditListener(self, type) == << ChapterEvent(self.options_.label) >>

(* --------------------------- the state machine ------------------------- *)

\* The component as a record of its fields.
This ==
    [options_ |-> options_, nonIconControl |-> nonIconControl, el_ |-> el_,
     controlText_ |-> controlText_, selectable |-> selectable,
     isSelected_ |-> isSelected_, multiSelectable |-> multiSelectable]

\* The fields of the component become those of s.
Becomes(s) ==
    /\ options_' = s.options_
    /\ nonIconControl' = s.nonIconControl
    /\ el_' = s.el_
    /\ controlText_' = s.controlText_
    /\ selectable' = s.selectable
    /\ isSelected_' = s.isSelected_
    /\ multiSelectable' = s.multiSelectable

\* No event yet.
NoEvent == [type |-> "none", key |-> "none", propagationStopped |-> FALSE]

\* What is recorded of the last operation: its name, the event and the
\* selected flag as they were when it was entered, what it did and the events
\* it dispatched on window.
Trace(op, evIn, selectedIn, r, dispatched) ==
    [op |-> op, eventOnEntry |-> evIn, selectedOnEntry |-> selectedIn,
     superHandleKeyDown |-> r.superHandleKeyDown,
     selectedRequests |-> r.selectedRequests,
     dispatched |-> dispatched]

\* The state when the constructor returns from new MenuItem(player, o).
Constructed(o) ==
    LET s == Constructor(o) IN
    /\ options_ = s.options_
    /\ nonIconControl = s.nonIconControl
    /\ el_ = s.el_
    /\ controlText_ = s.controlText_
    /\ selectable = s.selectable
    /\ isSelected_ = s.isSelected_
    /\ multiSelectable = s.multiSelectable
    /\ event = NoEvent
    /\ trace = Trace("constructor", NoEvent, OrFalse(o.selected),
                     Run(s, NoEvent, <<>>, <<OrFalse(o.selected)>>), <<>>)

\* The state when the constructor returns, for any options.
Init == \E o \in Options : Constructed(o)

\* The same for the options of the rendering checks.
RenderInit == \E o \in RenderOptions : Constructed(o)

\* The owner calls selected(want).
SetSelected(want) ==
    /\ Becomes(Selected(This, want))
    /\ event' = NoEvent
    /\ trace' = Trace("selected", NoEvent, isSelected_,
                      Run(This, NoEvent, <<>>, <<want>>), <<>>)

\* A click or a tap on the item is delivered to handleClick.
Click(type) ==
    LET ev == [type |-> type, key |-> "none", propagationStopped |-> FALSE]
        r  == HandleClick(This, ev)
    IN  /\ Becomes(r.self)
        /\ event' = r.event
        /\ trace' = Trace("handleClick", ev, isSelected_, r, <<>>)

\* A keydown on the item is delivered to handleKeyDown.
KeyDown(key, stopped, baseStops) ==
    LET ev == [type |-> "keydown", key |-> key, propagationStopped |-> stopped]
        r  == HandleKeyDown(This, ev, baseStops)
    IN  /\ Becomes(r.self)
        /\ event' = r.event
        /\ trace' = Trace("handleKeyDown", ev, isSelected_, r, <<>>)

\* The edit button is activated, by a click or by a touchstart: its listener
\* for that event runs.
EditActivate(type) ==
    LET ev == [type |-> type, key |-> "none", propagationStopped |-> FALSE] IN
    /\ \E i \in DOMAIN el_.children : type \in el_.children[i].listeners
    /\ event' = ev
    /\ trace' = Trace("editListener", ev, isSelected_,
                      Run(This, ev, <<>>, <<>>), EditListener(This, type))
    /\ UNCHANGED <<options_, selectable, multiSelectable, isSelected_, el_,
                   controlText_, nonIconControl>>

Next ==
    \/ \E want \in BOOLEAN : SetSelected(want)
    \/ \E type \in {"click", "tap"} : Click(type)
    \/ \E key \in Keys, stopped \in BOOLEAN, baseStops \in BOOLEAN :
          KeyDown(key, stopped, baseStops)
    \/ \E type \in {"click", "touchstart"} : EditActivate(type)

Spec == Init /\ [][Next]_vars

\* The items of the rendering checks, under the same operations.
RenderSpec == RenderInit /\ [][Next]_vars

(* ------------------------------ properties ---------------------------- *)

\* The item is a chapter-variant item: its markup contains '-chapter-'.
IsChapterVariant == OuterHTMLIncludesChapter(el_)

HasSelectedClass == "vjs-selected" \in el_.className

AriaChecked == el_.attrs["aria-checked"]

RoleAttr == el_.attrs["role"]

\* The four facets of the selected state.
InSelectedState ==
    /\ HasSelectedClass
    /\ AriaChecked = "true"
    /\ controlText_ = Defined(SelectedText)
    /\ isSelected_

\* The four facets of the deselected state.
InDeselectedState ==
    /\ ~HasSelectedClass
    /\ AriaChecked = "false"
    /\ controlText_ = Defined(EmptyText)
    /\ ~isSelected_

\* C1: a chapter-variant item never has aria-checked "true" nor the class
\* 'vjs-selected', whatever its flags and its configured selection, after
\* construction and after any selected(true/false), click or tap.
C1_ChapterNeverSelected ==
    IsChapterVariant => (AriaChecked # "true" /\ ~HasSelectedClass)

\* A selectable chapter-variant item configured as selected has just been
\* asked to be selected.
C1_Witness ==
    /\ IsChapterVariant
    /\ Truthy(selectable)
    /\ options_.selected = "true"
    /\ trace.op \in {"selected", "handleClick"}
    /\ trace.selectedRequests = <<TRUE>>

\* C2: on an item that is not selectable, no selected() call and no click or
\* tap changes the selection class, aria-checked, the control text or the
\* selected flag: they stay as the constructor left them.
C2_NonSelectableFrame ==
    [][ ~Truthy(selectable) =>
           /\ (("vjs-selected" \in el_.className)' = HasSelectedClass)
           /\ el_.attrs["aria-checked"]' = AriaChecked
           /\ controlText_' = controlText_
           /\ isSelected_' = isSelected_ ]_vars

\* An item that is not selectable, configured as selected, has been asked to
\* be selected: it has the flag, but no class, no aria-checked, no control text.
C2_Witness ==
    /\ ~Truthy(selectable)
    /\ trace.op = "selected"
    /\ trace.selectedRequests = <<TRUE>>
    /\ isSelected_
    /\ ~HasSelectedClass
    /\ AriaChecked = Absent
    /\ controlText_ = Undefined

\* C3: on a selectable item that is not chapter-variant, selected(true) ends
\* in the selected state, whatever the state before: class present,
\* aria-checked "true", control text ', selected', flag true.
C3_SelectEntersSelected ==
    ( /\ trace.op = "selected"
      /\ trace.selectedRequests = <<TRUE>>
      /\ Truthy(selectable)
      /\ ~IsChapterVariant ) => InSelectedState

\* A deselected, selectable item that is not chapter-variant has been selected
\* by selected(true).
C3_Witness ==
    /\ trace.op = "selected"
    /\ trace.selectedRequests = <<TRUE>>
    /\ ~trace.selectedOnEntry
    /\ Truthy(selectable)
    /\ ~IsChapterVariant
    /\ InSelectedState

\* C4: on a selectable item, selected(false), and selected() with either
\* argument on a chapter-variant item, ends in the deselected state: class
\* absent, aria-checked "false", control text '', flag false.
C4_DeselectEntersDeselected ==
    ( /\ trace.op = "selected"
      /\ Truthy(selectable)
      /\ (trace.selectedRequests = <<FALSE>> \/ IsChapterVariant) )
    => InDeselectedState

\* A selected item has been deselected by selected(false).
C4_Witness ==
    /\ trace.op = "selected"
    /\ trace.selectedRequests = <<FALSE>>
    /\ trace.selectedOnEntry
    /\ Truthy(selectable)
    /\ InDeselectedState

\* C5: handleClick requests selected(true) and nothing else, and an item that
\* is selected when handleClick is entered has the same flag, class,
\* aria-checked and control text when it returns.
C5_ClickNeverDeselects ==
    [][ trace'.op = "handleClick" =>
           /\ trace'.selectedRequests = <<TRUE>>
           /\ isSelected_ =>
                 /\ isSelected_'
                 /\ (("vjs-selected" \in el_.className)' = HasSelectedClass)
                 /\ el_.attrs["aria-checked"]' = AriaChecked
                 /\ controlText_' = controlText_ ]_vars

\* A selected item has been clicked (or tapped) and is still selected.
C5_Witness ==
    /\ trace.op = "handleClick"
    /\ trace.selectedOnEntry
    /\ InSelectedState

\* C6: no operation after the constructor changes the role attribute.
C6_RoleNeverChanges == [][ el_.attrs["role"]' = RoleAttr ]_vars

\* A radio item that selected() has put in the selected state.
C6_Witness ==
    /\ RoleAttr = "menuitemradio"
    /\ trace.op = "selected"
    /\ ~trace.selectedOnEntry
    /\ InSelectedState

\* C7 as stated: after construction the role is 'menuitemcheckbox' when
\* multiSelectable = true, 'menuitemradio' when selectable = true and
\* multiSelectable = false, 'menuitem' when selectable = false.
C7_RoleAsStated ==
    trace.op = "constructor" =>
        /\ options_.multiSelectable = "true" => RoleAttr = "menuitemcheckbox"
        /\ (options_.selectable = "true" /\ options_.multiSelectable = "false")
              => RoleAttr = "menuitemradio"
        /\ options_.selectable = "false" => RoleAttr = "menuitem"

\* C7, amended: after construction the role is 'menuitemcheckbox' when
\* selectable = true and multiSelectable = true, 'menuitemradio' when
\* selectable = true and multiSelectable = false, 'menuitem' when
\* selectable = false.
C7_RoleAfterConstruction ==
    trace.op = "constructor" =>
        /\ (options_.selectable = "true" /\ options_.multiSelectable = "true")
              => RoleAttr = "menuitemcheckbox"
        /\ (options_.selectable = "true" /\ options_.multiSelectable = "false")
              => RoleAttr = "menuitemradio"
        /\ options_.selectable = "false" => RoleAttr = "menuitem"

\* An item constructed with selectable = false and multiSelectable = true: a
\* plain menu item.
C7_Witness ==
    /\ trace.op = "constructor"
    /\ options_.selectable = "false"
    /\ options_.multiSelectable = "true"
    /\ RoleAttr = "menuitem"

\* C8: handleKeyDown calls the base keydown handler not at all for a key of
\* MenuKeys, and exactly once, with the event it was given, for any other key.
C8_KeyDownDelegation ==
    trace.op = "handleKeyDown" =>
        trace.superHandleKeyDown =
            IF trace.eventOnEntry.key \in MenuKeys
            THEN <<>>
            ELSE <<trace.eventOnEntry>>

\* A keydown of a key that is not the menu's has been passed up.
C8_Witness ==
    /\ trace.op = "handleKeyDown"
    /\ trace.eventOnEntry.key = "a"
    /\ Len(trace.superHandleKeyDown) = 1

\* C9 as stated: when handleKeyDown returns from a keydown of one of the
\* menu's keys, the event's propagation is stopped.
C9_MenuKeyStopped ==
    (trace.op = "handleKeyDown" /\ trace.eventOnEntry.key \in MenuKeys)
    => event.propagationStopped

\* C9, amended: handleKeyDown ignores a keydown of one of the menu's keys:
\* when it returns the event is as it was given, its propagation not stopped
\* by the item.
C9_MenuKeyIgnored ==
    (trace.op = "handleKeyDown" /\ trace.eventOnEntry.key \in MenuKeys)
    => event = trace.eventOnEntry

\* A keydown of one of the menu's keys has gone through handleKeyDown and
\* still propagates.
C9_Witness ==
    /\ trace.op = "handleKeyDown"
    /\ trace.eventOnEntry.key \in MenuKeys
    /\ ~event.propagationStopped

\* C10: on a selectable item the facets agree in every state from the end of
\* the constructor on: the class 'vjs-selected' is present iff aria-checked is
\* "true" iff the control text is ', selected' iff the selected flag is true.
C10_FacetsAgree ==
    Truthy(selectable) =>
        /\ HasSelectedClass <=> (AriaChecked = "true")
        /\ (AriaChecked = "true") <=> (controlText_ = Defined(SelectedText))
        /\ (controlText_ = Defined(SelectedText)) <=> isSelected_

\* A selectable item selected from the keyboard: Enter, passed up to the base
\* handler, acted as a click.
C10_Witness ==
    /\ Truthy(selectable)
    /\ trace.op = "handleKeyDown"
    /\ trace.eventOnEntry.key = "Enter"
    /\ ~trace.selectedOnEntry
    /\ InSelectedState

\* C11: on a selectable item that is not chapter-variant, selected(true)
\* right after selected(true) changes nothing: flag, class, aria-checked and
\* control text are after the second call what they were after the first.
C11_SelectTwiceIdempotent ==
    [][ ( /\ trace.op = "selected"
          /\ trace.selectedRequests = <<TRUE>>
          /\ trace'.op = "selected"
          /\ trace'.selectedRequests = <<TRUE>>
          /\ Truthy(selectable)
          /\ ~IsChapterVariant )
        => /\ isSelected_' = isSelected_
           /\ (("vjs-selected" \in el_.className)' = HasSelectedClass)
           /\ el_.attrs["aria-checked"]' = AriaChecked
           /\ controlText_' = controlText_
           /\ el_' = el_ ]_vars

\* An item configured as not selected, which an earlier request has selected,
\* has been given selected(true) again and is in the selected state.
C11_Witness ==
    /\ trace.op = "selected"
    /\ trace.selectedRequests = <<TRUE>>
    /\ trace.selectedOnEntry
    /\ options_.selected = "false"
    /\ Truthy(selectable)
    /\ ~IsChapterVariant
    /\ InSelectedState

\* C13: each activation of the edit button, by a click or by a touchstart,
\* dispatches on window exactly one 'chapterEditEvent' whose data is
\* {chapter: the label's text before '||'}, before the listener returns.
C13_EditDispatchesOnce ==
    trace.op = "editListener" =>
        trace.dispatched =
            << [type |-> "chapterEditEvent",
                data |-> [chapter |-> Split(options_.label, Delimiter)[1]]] >>

\* The edit button of an item has been touched and one
\* event has been dispatched.
C13_Witness ==
    /\ trace.op = "editListener"
    /\ event.type = "touchstart"
    /\ Len(trace.dispatched) = 1
    /\ trace.dispatched[1].data.chapter # <<>>

\* The row is the hidden row of an item with a blank name.
IsPlaceholder == el_.style = "display: none;"

\* C14 as stated: the hidden row of a blank name never has the selection
\* class nor aria-checked "true", after construction and after any click or
\* tap, and no click or tap makes its selected flag true.
C14_PlaceholderNeverSelected ==
    IsPlaceholder =>
        /\ ~HasSelectedClass
        /\ AriaChecked # "true"
        /\ (trace.op = "handleClick" /\ ~trace.selectedOnEntry) => ~isSelected_

\* C14, amended: the hidden row of a blank name that is not selectable never
\* has the selection class nor aria-checked, and a click or tap leaves its
\* selected flag as it was; the hidden row of a selectable item is in the
\* selected state after a click or tap.
C14_PlaceholderLikeAnyItem ==
    IsPlaceholder =>
        /\ ~Truthy(selectable) =>
              /\ ~HasSelectedClass
              /\ AriaChecked = Absent
              /\ trace.op = "handleClick" => isSelected_ = trace.selectedOnEntry
        /\ (Truthy(selectable) /\ trace.op = "handleClick") => InSelectedState

\* The hidden row of a selectable item, not selected before, has been clicked
\* and is selected.
C14_Witness ==
    /\ IsPlaceholder
    /\ Truthy(selectable)
    /\ trace.op = "handleClick"
    /\ ~trace.selectedOnEntry
    /\ InSelectedState

\* C15 as stated: when the constructor returns, a selectable item has the
\* flag, the class and aria-checked "true" exactly when it was configured
\* with selected = true, and is deselected otherwise.
C15_InitialAsConfigured ==
    (trace.op = "constructor" /\ Truthy(selectable)) =>
        /\ isSelected_ <=> (options_.selected = "true")
        /\ HasSelectedClass <=> (options_.selected = "true")
        /\ (AriaChecked = "true") <=> (options_.selected = "true")
        /\ (AriaChecked = "false") <=> (options_.selected # "true")

\* C15, amended: when the constructor returns, a selectable item that is not
\* chapter-variant has the flag, the class and aria-checked "true" exactly
\* when it was configured with selected = true and is deselected otherwise; a
\* selectable chapter-variant item is deselected whatever the configuration.
C15_InitialUnlessChapter ==
    (trace.op = "constructor" /\ Truthy(selectable)) =>
        LET on == options_.selected = "true" /\ ~IsChapterVariant IN
        /\ isSelected_ <=> on
        /\ HasSelectedClass <=> on
        /\ (AriaChecked = "true") <=> on
        /\ (AriaChecked = "false") <=> ~on

\* A selectable item that is not chapter-variant, constructed as selected.
C15_Witness ==
    /\ trace.op = "constructor"
    /\ Truthy(selectable)
    /\ options_.selected = "true"
    /\ ~IsChapterVariant
    /\ isSelected_
    /\ HasSelectedClass
    /\ AriaChecked = "true"

\* C18 as stated: an item with a name that is not blank has the edit button,
\* so is chapter-variant, and never has the selected flag true, the selection
\* class or aria-checked "true"; only hidden rows are ever selected.
C18_NamedNeverSelected ==
    ~IsChapterNameEmpty(options_.label) =>
        /\ \E i \in DOMAIN el_.children :
              el_.children[i].className = "vjs-menu-item-chapter-edit-button"
        /\ IsChapterVariant
        /\ ~isSelected_
        /\ ~HasSelectedClass
        /\ AriaChecked # "true"

\* C18, amended: an item with a name that is not blank has the edit button,
\* so is chapter-variant, and never has the selection class or aria-checked
\* "true"; its selected flag is never true if it is selectable, and is the
\* configured value if it is not; only hidden rows are ever selected.
C18_NamedNeverShownSelected ==
    ~IsChapterNameEmpty(options_.label) =>
        /\ \E i \in DOMAIN el_.children :
              el_.children[i].className = "vjs-menu-item-chapter-edit-button"
        /\ IsChapterVariant
        /\ Truthy(selectable) => ~isSelected_
        /\ ~Truthy(selectable) => (isSelected_ = OrFalse(options_.selected))
        /\ ~HasSelectedClass
        /\ AriaChecked # "true"

\* A selectable item with a name, configured as selected, has been clicked
\* and is deselected.
C18_Witness ==
    /\ ~IsChapterNameEmpty(options_.label)
    /\ Truthy(selectable)
    /\ options_.selected = "true"
    /\ trace.op = "handleClick"
    /\ InDeselectedState

\* C19: from the end of the constructor on, aria-checked is present iff the
\* item is selectable; an item that is not selectable keeps its selected flag
\* at the configured value and never has the selection class.
C19_AriaCheckedIffSelectable ==
    /\ (AriaChecked # Absent) <=> Truthy(selectable)
    /\ AriaChecked \in {Absent, "true", "false"}
    /\ ~Truthy(selectable) =>
          /\ isSelected_ = OrFalse(options_.selected)
          /\ ~HasSelectedClass

\* An item that is not selectable, configured as selected, has been clicked:
\* the flag is set, there is no aria-checked and no class.
C19_Witness ==
    /\ ~Truthy(selectable)
    /\ options_.selected = "true"
    /\ trace.op = "handleClick"
    /\ isSelected_
    /\ AriaChecked = Absent
    /\ ~HasSelectedClass

\* C20: a keydown of one of the menu's keys changes nothing of the item:
\* handleKeyDown leaves the selected flag, the class, aria-checked, the
\* control text and the role as they were and dispatches no event.
C20_MenuKeyNoEffect ==
    [][ (trace'.op = "handleKeyDown" /\ trace'.eventOnEntry.key \in MenuKeys)
        => /\ isSelected_' = isSelected_
           /\ (("vjs-selected" \in el_.className)' = HasSelectedClass)
           /\ el_.attrs["aria-checked"]' = AriaChecked
           /\ controlText_' = controlText_
           /\ el_.attrs["role"]' = RoleAttr
           /\ trace'.selectedRequests = <<>>
           /\ trace'.dispatched = <<>> ]_vars

\* A deselected selectable item that is not chapter-variant has received the
\* Down key and is still deselected.
C20_Witness ==
    /\ trace.op = "handleKeyDown"
    /\ trace.eventOnEntry.key = "Down"
    /\ Truthy(selectable)
    /\ ~IsChapterVariant
    /\ InDeselectedState

(* ------------------------ properties of the row ----------------------- *)

\* The place of the first '||' in the label, 0 if there is none.
FirstDelimiter(label) == IndexOf(label, Delimiter)

\* The label's text before its first '||' (all of it if there is none).
BeforeFirst(label) ==
    IF FirstDelimiter(label) = 0
    THEN label
    ELSE SubSeq(label, 1, FirstDelimiter(label) - 1)

\* The label's text after its first '||'.
AfterFirst(label) ==
    SubSeq(label, FirstDelimiter(label) + Len(Delimiter), Len(label))

\* The text is empty or made of whitespace only.
IsBlank(text) == \A i \in DOMAIN text : text[i] = " "

\* The classes of the row's children, in order.
ChildClasses == [i \in DOMAIN el_.children |-> el_.children[i].className]

HasChild(className) == \E i \in DOMAIN ChildClasses : ChildClasses[i] = className

\* C12: when the label's text before '||' is empty or all whitespace the row
\* is the hidden one, without edit button, text span and start time span;
\* otherwise the row has the edit button first, then the text span with the
\* localized text, and the start time span, last, iff the label has a second
\* part that is not empty.
C12_RowStructure ==
    LET label == options_.label
        n == Len(el_.children)
    IN  IF IsBlank(BeforeFirst(label))
        THEN /\ el_.style = "display: none;"
             /\ ~HasChild("vjs-menu-item-chapter-edit-button")
             /\ ~HasChild("vjs-menu-item-text")
             /\ ~HasChild("vjs-menu-item-chapter-starttime")
             /\ \A i \in 1..n : el_.children[i].listeners = {}
        ELSE /\ el_.style # "display: none;"
             /\ ChildClasses[1] = "vjs-menu-item-chapter-edit-button"
             /\ el_.children[1].listeners = {"click", "touchstart"}
             /\ el_.children[2] =
                   Span("vjs-menu-item-text", Localize(BeforeFirst(label)), {})
             /\ HasChild("vjs-menu-item-chapter-starttime")
                   <=> TruthyText(ChapterStartTime(label))
             /\ HasChild("vjs-menu-item-chapter-starttime") =>
                   el_.children[n] =
                       Span("vjs-menu-item-chapter-starttime",
                            Localize(ChapterStartTime(label).text), {})

\* The row of a label with a name and a start time: edit button, text span,
\* control text span, start time span.
C12_Witness ==
    /\ ~IsBlank(BeforeFirst(options_.label))
    /\ Len(el_.children) = 4
    /\ ChildClasses[1] = "vjs-menu-item-chapter-edit-button"
    /\ ChildClasses[4] = "vjs-menu-item-chapter-starttime"
    /\ el_.children[4].textContent # <<>>

\* C16 as stated: the name is the label's text before its first '||' and the
\* start time is all that follows that first '||', absent when the label has
\* no '||'.
C16_SplitOnFirstOnly ==
    LET label == options_.label IN
    /\ ChapterText(label) = BeforeFirst(label)
    /\ ChapterStartTime(label) =
          IF FirstDelimiter(label) = 0
          THEN Undefined
          ELSE Defined(AfterFirst(label))

\* C16, amended: the name is the label's text before its first '||' and the
\* start time is the text between the first '||' and the next '||' after it,
\* or the end of the label when there is no other; it is absent when the
\* label has no '||'.
C16_SplitSecondPiece ==
    LET label == options_.label IN
    /\ ChapterText(label) = BeforeFirst(label)
    /\ ChapterStartTime(label) =
          IF FirstDelimiter(label) = 0
          THEN Undefined
          ELSE Defined(BeforeFirst(AfterFirst(label)))

\* An item with a name whose label has two '||': the row is rendered, and
\* what follows the first '||' is more than the start time.
C16_Witness ==
    /\ FirstDelimiter(options_.label) > 1
    /\ FirstDelimiter(AfterFirst(options_.label)) > 0
    /\ ~IsPlaceholder
    /\ HasChild("vjs-menu-item-text")

\* C17: after the constructor no operation adds, removes, reorders or
\* rewrites the row's children or its label text: only the class
\* 'vjs-selected', aria-checked and the text of the control text span change.
C17_RenderedOnce ==
    [][ /\ el_.tag' = el_.tag
        /\ el_.style' = el_.style
        /\ el_.tabIndex' = el_.tabIndex
        /\ (el_.className \ {"vjs-selected"})' = el_.className \ {"vjs-selected"}
        /\ el_.attrs["role"]' = el_.attrs["role"]
        /\ el_.attrs["title"]' = el_.attrs["title"]
        /\ Len(el_.children)' = Len(el_.children)
        /\ \A i \in DOMAIN el_.children :
              /\ el_.children[i].className' = el_.children[i].className
              /\ el_.children[i].listeners' = el_.children[i].listeners
              /\ el_.children[i].className # "vjs-control-text" =>
                    el_.children[i].textContent' = el_.children[i].textContent
      ]_vars

\* A selectable item with a name and a start time after selected(false): the
\* four children are there, the text span has its text.
C17_Witness ==
    /\ trace.op = "selected"
    /\ trace.selectedRequests = <<FALSE>>
    /\ Truthy(selectable)
    /\ Len(el_.children) = 4
    /\ ChildClasses[2] = "vjs-menu-item-text"
    /\ el_.children[2].textContent # <<>>
    /\ ChildClasses[4] = "vjs-menu-item-chapter-starttime"

====
